---- MODULE Spec2Model ----
(***************************************************************************)
(* Model of the option-selling cycle of algo_v1_0.py: the open-order gate  *)
(* of main(), the date selection of get_next_available_date() under its    *)
(* tenacity retry wrapper, the price qualification of create_reference(),  *)
(* the fill wait of set_option_trade() and the stop-loss of                *)
(* set_stop_loss().                                                        *)
(*                                                                         *)
(* Dates are day numbers counted from 2021-11-01, a Monday, so that        *)
(* d % 7 is date.weekday() (Monday = 0).  Prices are counted in quarters   *)
(* of an index point (the ES tick), so that 4.75 is the integer 19.        *)
(***************************************************************************)
EXTENDS Integers, Sequences, FiniteSets, TLC

VARIABLES
    pc,                 \* position of the single thread of control
    error,              \* exception that ended main(), "none" while running
    today,              \* datetime.today().date()
    holidays,           \* BANK_HOLIDAYS_DATES of the configuration in use
    trial_rounding,     \* TRIAL_ROUNDING of the configuration in use
    start_date,         \* argument of get_next_available_date
    date_of_trade,      \* main()'s working date
    last_attempt,       \* outcome of the latest attempt of get_next_available_date
    reference_contract, \* conId of the qualified reference future
    reference_price,    \* latest reading of marketPrice()
    qi,                 \* loop index of the qualification loop
    strike_price,       \* strike returned by create_reference
    option_trade,       \* the primary (SELL) order of the running cycle
    option_status,      \* latest value read from option_trade.orderStatus.status
    long_option_order,  \* the stop-loss (BUY) order of the running cycle
    primary_status,     \* the platform's status of the primary order
    stop_open,          \* the platform still holds the stop-loss order open
    foreign_open,       \* open orders on the account this run did not place
    submitted,          \* placeOrder calls so far: kind and cycle
    cycle,              \* number of cycles started
    polls,              \* status reads of the running cycle
    pending_polls       \* status reads of the running cycle that were not 'Filled'

vars == << pc, error, today, holidays, trial_rounding, start_date, date_of_trade,
           last_attempt, reference_contract, reference_price, qi, strike_price,
           option_trade, option_status, long_option_order, primary_status,
           stop_open, foreign_open, submitted, cycle, polls, pending_polls >>

(***************************************************************************)
(* Bounds of the model.                                                    *)
(***************************************************************************)
MaxCycles == 14
MaxPolls == 3
MaxForeign == 1
MaxToday == 30
MaxScanToday == 3
MaxScanStart == 40
PriceSpread == 40

(***************************************************************************)
(* Configuration constants of algo_v1_0.py.                                *)
(***************************************************************************)
Scale == 4
ORDER_PLACE_MAX_DATE == 30
TRADING_DAYS_OF_WEEK == {0, 2, 4}
STRIKE_PRICE_WAIT_PERIOD == 10
STRIKE_PRICE_MAX_WAIT_PERIOD == 120
CONTRACTS_NUMBER == 1
ScanDays == 7
StrikeIncrement == 5
TrialOffset == 10
StopLossOffset == 19

\* 2021-09-06, 2021-10-10, 2021-11-11, 2021-11-24, 2021-12-26 as day numbers
BANK_HOLIDAYS_DATES == {0 - 56, 0 - 22, 10, 23, 55}

\* Holiday lists an operator may configure: the shipped one, none at all, and
\* one that closes the Monday, Wednesday and Friday of the week of 2021-11-29.
HolidayCalendars == { BANK_HOLIDAYS_DATES, {}, {28, 30, 32} }

NaN == 0 - 1
NoDate == 0 - 1000

\* marketPrice() readings: 3999, 4000, 4001, 4002, 4002.5, 4007.5 and nan
Prices == {15996, 16000, 16004, 16008, 16010, 16030}
Readings == Prices \cup {NaN}

ConIds == {1, 2}

OrderStatuses == {"PendingSubmit", "PreSubmitted", "Submitted", "Filled", "Cancelled"}
DoneStatuses == {"Filled", "Cancelled"}

(***************************************************************************)
(* get_next_available_date                                                 *)
(***************************************************************************)
weekday(d) == d % 7

Returned(d) == [kind |-> "return", value |-> d]
Raised(e) == [kind |-> e, value |-> NoDate]

BeyondHorizonInclusive(candidate_date, now) == candidate_date >= now + ORDER_PLACE_MAX_DATE

BeyondHorizonOff(candidate_date, now) == FALSE

BeyondHorizon(candidate_date, now) == candidate_date > now + ORDER_PLACE_MAX_DATE

IsHolidayIgnored(candidate_date, hol) == FALSE

IsHoliday(candidate_date, hol) == candidate_date \in hol

RECURSIVE ScanFrom(_, _, _, _)
ScanFrom(start, now, hol, i) ==
    IF i >= ScanDays
    THEN Raised("AssertionError")
    ELSE LET candidate_date == start + i IN
         IF BeyondHorizon(candidate_date, now)
         THEN Raised("NoSuitableDate")
         ELSE IF IsHoliday(candidate_date, hol)
              THEN ScanFrom(start, now, hol, i + 1)
              ELSE IF weekday(candidate_date) \in TRADING_DAYS_OF_WEEK
                   THEN Returned(candidate_date)
                   ELSE ScanFrom(start, now, hol, i + 1)

get_next_available_date_from_next_day(start, now, hol) == ScanFrom(start, now, hol, 1)

get_next_available_date(start, now, hol) == ScanFrom(start, now, hol, 0)

\* tenacity's retry() without a retry= argument retries on every Exception
ExceptionTypes == {"NoSuitableDate", "NoSuitablePrice", "AssertionError", "ValueError"}
RetryOn(e) == e \in ExceptionTypes

(***************************************************************************)
(* create_reference                                                        *)
(***************************************************************************)
isnan(p) == p = NaN

\* Python 3 round(): to the nearest integer, ties to the even one
PyRound(num, den) ==
    LET f == num \div den
        r == num % den
    IN  IF 2 * r < den THEN f
        ELSE IF 2 * r > den THEN f + 1
        ELSE IF f % 2 = 0 THEN f ELSE f + 1

StrikeCandidateNoOffset(price, trial) ==
    StrikeIncrement * Scale * PyRound(price, StrikeIncrement * Scale)

StrikeCandidate(price, trial) ==
    StrikeIncrement * Scale * PyRound(price, StrikeIncrement * Scale)
        + (IF trial THEN TrialOffset * Scale ELSE 0)

FavorableOrEqual(rounded, price) == rounded >= price

Favorable(rounded, price) == rounded > price

QualificationStepsInclusive == STRIKE_PRICE_MAX_WAIT_PERIOD \div STRIKE_PRICE_WAIT_PERIOD + 1

QualificationSteps == STRIKE_PRICE_MAX_WAIT_PERIOD \div STRIKE_PRICE_WAIT_PERIOD

(***************************************************************************)
(* Orders                                                                  *)
(***************************************************************************)
\* date.strftime('%Y%m%d') of a day number at or after 2021-11-01
Months == << [y |-> 2021, m |-> 11, len |-> 30], [y |-> 2021, m |-> 12, len |-> 31],
             [y |-> 2022, m |-> 1, len |-> 31], [y |-> 2022, m |-> 2, len |-> 28] >>

RECURSIVE FormatFrom(_, _)
FormatFrom(d, k) ==
    IF k > Len(Months) THEN 0
    ELSE IF d < Months[k].len
         THEN Months[k].y * 10000 + Months[k].m * 100 + (d + 1)
         ELSE FormatFrom(d - Months[k].len, k + 1)

strftime(d) == FormatFrom(d, 1)

FuturesOption(date_formatted, strike) ==
    [symbol |-> "ES", lastTradeDateOrContractMonth |-> date_formatted,
     strike |-> strike, right |-> "C", exchange |-> "GLOBEX"]

NoContract ==
    [symbol |-> "", lastTradeDateOrContractMonth |-> 0,
     strike |-> 0, right |-> "", exchange |-> ""]

MarketOrder(action, quantity, contract, conditions) ==
    [action |-> action, totalQuantity |-> quantity, outsideRth |-> TRUE,
     contract |-> contract, conditions |-> conditions]

NoOrder ==
    [action |-> "", totalQuantity |-> 0, outsideRth |-> FALSE,
     contract |-> NoContract, conditions |-> << >>]

\* ContFuture('ES', 'GLOBEX') after qualifyContracts has filled in its conId
ContFuture(conId) == [symbol |-> "ES", exchange |-> "GLOBEX", conId |-> conId]

NoReference == [symbol |-> "", exchange |-> "", conId |-> 0]

calculate_stop_loss_price_below(price) == price - StopLossOffset

calculate_stop_loss_price(price) == price + StopLossOffset

PriceCondition(price, conId, exch) == [price |-> price, conId |-> conId, exch |-> exch]

PrimaryOrder(date, strike) ==
    MarketOrder("SELL", CONTRACTS_NUMBER, FuturesOption(strftime(date), strike), << >>)

StopLossOrder(date, reference, strike) ==
    MarketOrder("BUY", CONTRACTS_NUMBER, FuturesOption(strftime(date), strike),
                << PriceCondition(calculate_stop_loss_price(strike),
                                  reference.conId, reference.exchange) >>)

(***************************************************************************)
(* The platform's open orders, as ib.reqOpenOrders() reports them          *)
(***************************************************************************)
reqOpenOrders ==
    (IF foreign_open > 0 THEN {"foreign"} ELSE {})
    \cup (IF primary_status \in OrderStatuses \ DoneStatuses THEN {"primary"} ELSE {})
    \cup (IF stop_open THEN {"stoploss"} ELSE {})

GateReadyUnchecked(open_orders) == TRUE

GateReady(open_orders) == open_orders = {}

FillWaitDoneOnAnyEnd(status) == status \in DoneStatuses

FillWaitDoneUnlessPending(status) == status \notin {"PendingSubmit", "PreSubmitted", "Submitted"}

FillWaitDone(status) == status = "Filled"

AfterFillWaitReturns == "advance"

\* the statement that follows the fill-wait loop of set_option_trade
AfterFillWait == "set_stop_loss"

CaughtInMainPrice == {"NoSuitablePrice"}

\* exception types that set_option_trade or main() handle: there is no try block
CaughtInMain == {}

AfterRaise(e) == IF e \in CaughtInMain THEN "gate" ELSE "done"

NextStartDateSame(date) == date

\* the argument main() passes on after a cycle: date_of_trade + timedelta(days=1)
NextStartDate(date) == date + 1

(***************************************************************************)
(* Initial states                                                          *)
(***************************************************************************)
NoAttempt == [today |-> NoDate, result |-> Raised("none")]

\* the days main() may be started on: 2021-11-27 (a Saturday) to 2021-11-29
StartDays == {26, 27, 28}

Idle ==
    /\ error = "none"
    /\ date_of_trade = NoDate
    /\ last_attempt = NoAttempt
    /\ reference_contract = NoReference
    /\ reference_price = NaN
    /\ qi = 0
    /\ strike_price = 0
    /\ option_trade = NoOrder
    /\ option_status = ""
    /\ long_option_order = NoOrder
    /\ primary_status = "None"
    /\ stop_open = FALSE
    /\ submitted = << >>
    /\ cycle = 0
    /\ polls = 0
    /\ pending_polls = 0

\* main() is about to call get_next_available_date(datetime.today().date())
Init ==
    /\ pc = "get_date"
    /\ today \in StartDays
    /\ start_date = today
    /\ holidays \in HolidayCalendars
    /\ trial_rounding \in BOOLEAN
    /\ foreign_open \in 0..MaxForeign
    /\ Idle

\* one call of get_next_available_date, for any start date and any day of the call
InitDate ==
    /\ pc = "get_date"
    /\ today \in 0..MaxScanToday
    /\ start_date \in 0..MaxScanStart
    /\ holidays \in HolidayCalendars
    /\ trial_rounding = TRUE
    /\ foreign_open = 0
    /\ Idle

(***************************************************************************)
(* Steps of the program                                                    *)
(***************************************************************************)
dateVars == << start_date, date_of_trade, last_attempt >>
configVars == << holidays, trial_rounding >>
priceVars == << reference_contract, reference_price, qi, strike_price >>
orderVars == << option_trade, option_status, long_option_order >>
bookVars == << primary_status, stop_open, foreign_open >>
ghostVars == << submitted, cycle, polls, pending_polls >>

\* one attempt of the retry-wrapped get_next_available_date(start_date)
GetNextAvailableDate ==
    /\ pc = "get_date"
    /\ LET r == get_next_available_date(start_date, today, holidays) IN
        /\ last_attempt' = [today |-> today, result |-> r]
        /\ date_of_trade' = IF r.kind = "return" THEN r.value ELSE date_of_trade
        /\ pc' = IF r.kind = "return" THEN "gate"
                 ELSE IF RetryOn(r.kind) THEN "retry_wait" ELSE "done"
        /\ error' = IF r.kind # "return" /\ ~RetryOn(r.kind) THEN r.kind ELSE error
    /\ UNCHANGED << today, start_date, configVars, priceVars, orderVars, bookVars, ghostVars >>

\* wait_fixed(PERIOD_TO_WAIT_FOR_THE_NEXT_DAY) has elapsed: the wrapper calls again
RetryWait ==
    /\ pc = "retry_wait"
    /\ pc' = "get_date"
    /\ UNCHANGED << error, today, dateVars, configVars, priceVars, orderVars, bookVars, ghostVars >>

\* one iteration of the loop of main(): poll the open orders
Gate ==
    /\ pc = "gate"
    /\ GateReady(reqOpenOrders) => cycle < MaxCycles
    /\ IF GateReady(reqOpenOrders)
       THEN /\ pc' = "create_reference"
            /\ cycle' = cycle + 1
            /\ polls' = 0
            /\ pending_polls' = 0
            /\ option_trade' = NoOrder
            /\ option_status' = ""
            /\ long_option_order' = NoOrder
            /\ reference_contract' = NoReference
            /\ strike_price' = 0
       ELSE /\ pc' = "gate_sleep"
            /\ UNCHANGED << cycle, polls, pending_polls, orderVars, reference_contract,
                            strike_price >>
    /\ UNCHANGED << error, today, dateVars, configVars, reference_price, qi, bookVars, submitted >>

\* ib.sleep(OPEN_ORDERS_CHECK_PERIOD) returns
GateSleep ==
    /\ pc = "gate_sleep"
    /\ pc' = "gate"
    /\ UNCHANGED << error, today, dateVars, configVars, priceVars, orderVars, bookVars, ghostVars >>

\* create_reference: qualify the reference future and take the first reading
CreateReference ==
    /\ pc = "create_reference"
    /\ \E c \in ConIds, p \in Readings :
          /\ reference_contract' = ContFuture(c)
          /\ reference_price' = p
    /\ pc' = "warmup"
    /\ UNCHANGED << error, today, dateVars, configVars, qi, strike_price, orderVars, bookVars, ghostVars >>

\* create_reference: the warm-up loop
WarmUp ==
    /\ pc = "warmup"
    /\ IF isnan(reference_price)
       THEN /\ \E p \in Readings : reference_price' = p
            /\ UNCHANGED << pc, qi >>
       ELSE /\ pc' = "qualify"
            /\ qi' = 0
            /\ UNCHANGED reference_price
    /\ UNCHANGED << error, today, dateVars, configVars, reference_contract, strike_price,
                    orderVars, bookVars, ghostVars >>

\* create_reference: one iteration of the qualification loop, or its exhaustion
Qualify ==
    /\ pc = "qualify"
    /\ IF qi >= QualificationSteps
       THEN /\ pc' = AfterRaise("NoSuitablePrice")
            /\ error' = "NoSuitablePrice"
            /\ UNCHANGED << reference_price, qi, strike_price >>
       ELSE \E p \in Readings :
              /\ reference_price' = p
              /\ IF isnan(p)
                 THEN \* round(nan) raises ValueError
                      /\ pc' = AfterRaise("ValueError")
                      /\ error' = "ValueError"
                      /\ UNCHANGED << qi, strike_price >>
                 ELSE LET reference_price_rounded == StrikeCandidate(p, trial_rounding) IN
                      IF Favorable(reference_price_rounded, p)
                      THEN /\ strike_price' = reference_price_rounded
                           /\ pc' = "create_and_trade"
                           /\ UNCHANGED << error, qi >>
                      ELSE /\ qi' = qi + 1
                           /\ UNCHANGED << pc, error, strike_price >>
    /\ UNCHANGED << today, dateVars, configVars, reference_contract, orderVars, bookVars, ghostVars >>

\* create_and_trade_contract: place the primary order
CreateAndTrade ==
    /\ pc = "create_and_trade"
    /\ option_trade' = PrimaryOrder(date_of_trade, strike_price)
    /\ primary_status' = "PendingSubmit"
    /\ submitted' = Append(submitted, [kind |-> "primary", cycle |-> cycle])
    /\ reference_price' = NaN
    /\ qi' = 0
    /\ pc' = "fill_wait"
    /\ UNCHANGED << error, today, dateVars, configVars, reference_contract, strike_price,
                    option_status, long_option_order, stop_open, foreign_open,
                    cycle, polls, pending_polls >>

\* set_option_trade: read the order status and test the loop condition
PollStatus ==
    /\ pc = "fill_wait"
    /\ FillWaitDone(primary_status) \/ polls < MaxPolls
    /\ option_status' = primary_status
    /\ polls' = polls + 1
    /\ pending_polls' = IF primary_status = "Filled" THEN pending_polls ELSE pending_polls + 1
    /\ pc' = IF FillWaitDone(primary_status) THEN AfterFillWait ELSE "fill_wait"
    /\ UNCHANGED << error, today, dateVars, configVars, priceVars, option_trade,
                    long_option_order, bookVars, submitted, cycle >>

\* set_stop_loss: place the conditional BUY order
SetStopLoss ==
    /\ pc = "set_stop_loss"
    /\ long_option_order' = StopLossOrder(date_of_trade, reference_contract, strike_price)
    /\ stop_open' = TRUE
    /\ submitted' = Append(submitted, [kind |-> "stoploss", cycle |-> cycle])
    /\ pc' = "advance"
    /\ UNCHANGED << error, today, dateVars, configVars, priceVars, option_trade, option_status,
                    primary_status, foreign_open, cycle, polls, pending_polls >>

\* main(): set_option_trade returned, call get_next_available_date(date_of_trade + 1 day)
Advance ==
    /\ pc = "advance"
    /\ start_date' = NextStartDate(date_of_trade)
    /\ pc' = "get_date"
    /\ UNCHANGED << error, today, date_of_trade, last_attempt, configVars, priceVars,
                    orderVars, bookVars, ghostVars >>

(***************************************************************************)
(* Steps of the environment                                                *)
(***************************************************************************)
DayPasses ==
    /\ today < MaxToday
    /\ today' = today + 1
    /\ UNCHANGED << pc, error, dateVars, configVars, priceVars, orderVars, bookVars, ghostVars >>

\* the platform moves the primary order to another status
OrderStatusEvent ==
    /\ primary_status \in OrderStatuses \ DoneStatuses
    /\ \E s \in OrderStatuses \ {primary_status} : primary_status' = s
    /\ UNCHANGED << pc, error, today, dateVars, configVars, priceVars, orderVars,
                    stop_open, foreign_open, ghostVars >>

\* the stop-loss order triggers and fills, or is cancelled
StopLossCompletes ==
    /\ stop_open
    /\ stop_open' = FALSE
    /\ UNCHANGED << pc, error, today, dateVars, configVars, priceVars, orderVars,
                    primary_status, foreign_open, ghostVars >>

\* an order this run did not place completes
ForeignCompletes ==
    /\ foreign_open > 0
    /\ foreign_open' = foreign_open - 1
    /\ UNCHANGED << pc, error, today, dateVars, configVars, priceVars, orderVars,
                    primary_status, stop_open, ghostVars >>

Next ==
    \/ GetNextAvailableDate
    \/ RetryWait
    \/ Gate
    \/ GateSleep
    \/ CreateReference
    \/ WarmUp
    \/ Qualify
    \/ CreateAndTrade
    \/ PollStatus
    \/ SetStopLoss
    \/ Advance
    \/ DayPasses
    \/ OrderStatusEvent
    \/ StopLossCompletes
    \/ ForeignCompletes

Spec == Init /\ [][Next]_vars

NextDate ==
    \/ GetNextAvailableDate
    \/ RetryWait
    \/ DayPasses

SpecDate == InitDate /\ [][NextDate]_vars

\* the wrapper always calls again once its wait is over, and the calendar advances
SpecDateFair ==
    /\ InitDate
    /\ [][NextDate]_vars
    /\ WF_vars(GetNextAvailableDate)
    /\ WF_vars(RetryWait)
    /\ WF_vars(DayPasses)

(***************************************************************************)
(* pre_prod_upd.py: create_reference                                       *)
(***************************************************************************)
UPD_STRIKE_PRICE_WAIT_PERIOD == 10
UPD_STRIKE_PRICE_MAX_WAIT_PERIOD == 100
UpdQualificationSteps == UPD_STRIKE_PRICE_MAX_WAIT_PERIOD \div UPD_STRIKE_PRICE_WAIT_PERIOD

\* reference_futures_ticker.close: every tick within 10 points of 4000, or nan
PriceBase == 16000
ClosePrices == (PriceBase - PriceSpread)..(PriceBase + PriceSpread)
CloseReadings == ClosePrices \cup {NaN}

\* the test of line 108, made on the candidate plus 10
UpdAccepts(rounded, price) == rounded + TrialOffset * Scale > price

InitUpd ==
    /\ pc = "upd_create_reference"
    /\ today \in StartDays
    /\ start_date = today
    /\ holidays = BANK_HOLIDAYS_DATES
    /\ trial_rounding = TRUE
    /\ foreign_open = 0
    /\ Idle

\* qualify the reference future and take the first reading of its close
UpdCreateReference ==
    /\ pc = "upd_create_reference"
    /\ \E c \in ConIds, p \in CloseReadings :
          /\ reference_contract' = ContFuture(c)
          /\ reference_price' = p
    /\ pc' = "upd_warmup"
    /\ UNCHANGED << error, today, dateVars, configVars, qi, strike_price, orderVars, bookVars, ghostVars >>

\* the warm-up loop
UpdWarmUp ==
    /\ pc = "upd_warmup"
    /\ IF isnan(reference_price)
       THEN /\ \E p \in CloseReadings : reference_price' = p
            /\ UNCHANGED << pc, qi >>
       ELSE /\ pc' = "upd_qualify"
            /\ qi' = 0
            /\ UNCHANGED reference_price
    /\ UNCHANGED << error, today, dateVars, configVars, reference_contract, strike_price,
                    orderVars, bookVars, ghostVars >>

\* one iteration of the qualification loop, which does not read the price again,
\* or its exhaustion
UpdQualify ==
    /\ pc = "upd_qualify"
    /\ IF qi >= UpdQualificationSteps
       THEN /\ pc' = "done"
            /\ error' = "NoSuitablePrice"
            /\ UNCHANGED << qi, strike_price >>
       ELSE LET reference_price_rounded == StrikeCandidate(reference_price, FALSE) IN
            IF UpdAccepts(reference_price_rounded, reference_price)
            THEN /\ strike_price' = reference_price_rounded
                 /\ pc' = "upd_returned"
                 /\ UNCHANGED << error, qi >>
            ELSE /\ qi' = qi + 1
                 /\ UNCHANGED << pc, error, strike_price >>
    /\ UNCHANGED << today, dateVars, configVars, reference_contract, reference_price,
                    orderVars, bookVars, ghostVars >>

NextUpd ==
    \/ UpdCreateReference
    \/ UpdWarmUp
    \/ UpdQualify

SpecUpd == InitUpd /\ [][NextUpd]_vars

(***************************************************************************)
(* pre_prod_algo.py: runner, get_reference_price and set_option_trade      *)
(***************************************************************************)
available_option_days == {0, 2, 4}

\* get_date: the first day from today on whose weekday is an option day
get_date(now) ==
    CHOOSE d \in now..(now + 6) :
        /\ weekday(d) \in available_option_days
        /\ \A e \in now..(d - 1) : weekday(e) \notin available_option_days

\* MarketOrder('SELL', 1) on FuturesOption('ES', set_date, strike_price, 'C', 'GLOBEX')
AlgoPrimaryOrder(date, strike) ==
    [action |-> "SELL", totalQuantity |-> 1, outsideRth |-> FALSE,
     contract |-> FuturesOption(strftime(date), strike), conditions |-> << >>]

\* the module has set set_date, runner() is about to read the open orders
InitAlgo ==
    /\ pc = "algo_runner"
    /\ today \in StartDays
    /\ start_date = today
    /\ holidays = {}
    /\ trial_rounding = FALSE
    /\ foreign_open \in 0..MaxForeign
    /\ error = "none"
    /\ date_of_trade = get_date(today)
    /\ last_attempt = NoAttempt
    /\ reference_contract = NoReference
    /\ reference_price = NaN
    /\ qi = 0
    /\ strike_price = 0
    /\ option_trade = NoOrder
    /\ option_status = ""
    /\ long_option_order = NoOrder
    /\ primary_status = "None"
    /\ stop_open = FALSE
    /\ submitted = << >>
    /\ cycle = 0
    /\ polls = 0
    /\ pending_polls = 0

\* runner: check_orders is read once, before the loop
AlgoRunner ==
    /\ pc = "algo_runner"
    /\ pc' = IF reqOpenOrders = {} THEN "algo_get_reference" ELSE "algo_blocked"
    /\ cycle' = IF reqOpenOrders = {} THEN 1 ELSE cycle
    /\ UNCHANGED << error, today, dateVars, configVars, priceVars, orderVars, bookVars,
                    submitted, polls, pending_polls >>

\* runner: check_orders was not empty, log and ib.sleep(30)
AlgoBlocked ==
    /\ pc = "algo_blocked"
    /\ pc' = "algo_blocked_sleep"
    /\ UNCHANGED << error, today, dateVars, configVars, priceVars, orderVars, bookVars, ghostVars >>

\* runner: the sleep returns, the loop tests the same check_orders again
AlgoBlockedWake ==
    /\ pc = "algo_blocked_sleep"
    /\ pc' = "algo_blocked"
    /\ UNCHANGED << error, today, dateVars, configVars, priceVars, orderVars, bookVars, ghostVars >>

\* get_reference_price: one iteration of its loop
AlgoGetReference ==
    /\ pc = "algo_get_reference"
    /\ \E c \in ConIds, p \in Readings :
          /\ reference_contract' = ContFuture(c)
          /\ reference_price' = p
          /\ IF isnan(p)
             THEN \* round(nan) raises ValueError
                  /\ pc' = "done"
                  /\ error' = "ValueError"
                  /\ UNCHANGED strike_price
             ELSE LET reference_price_rounded == StrikeCandidate(p, FALSE) IN
                  IF reference_price_rounded > p
                  THEN /\ strike_price' = reference_price_rounded
                       /\ pc' = "algo_place"
                       /\ UNCHANGED error
                  ELSE UNCHANGED << pc, error, strike_price >>
    /\ UNCHANGED << today, dateVars, configVars, qi, orderVars, bookVars, ghostVars >>

\* set_option_trade: place the SELL order, then ib.sleep(3)
AlgoPlace ==
    /\ pc = "algo_place"
    /\ option_trade' = AlgoPrimaryOrder(date_of_trade, strike_price)
    /\ primary_status' = "PendingSubmit"
    /\ submitted' = Append(submitted, [kind |-> "primary", cycle |-> cycle])
    /\ pc' = "algo_read_status"
    /\ UNCHANGED << error, today, dateVars, configVars, priceVars, option_status,
                    long_option_order, stop_open, foreign_open, cycle, polls, pending_polls >>

\* set_option_trade: option_status = option_trade.orderStatus.status, read once
AlgoReadStatus ==
    /\ pc = "algo_read_status"
    /\ option_status' = primary_status
    /\ pc' = "algo_fill_wait"
    /\ UNCHANGED << error, today, dateVars, configVars, priceVars, option_trade,
                    long_option_order, bookVars, ghostVars >>

\* set_option_trade: the test of the while loop and one pass of its body, or the
\* else branch, after which set_option_trade returns and runner breaks
AlgoFillWait ==
    /\ pc = "algo_fill_wait"
    /\ IF option_status # "Filled"
       THEN /\ polls < MaxPolls
            /\ polls' = polls + 1
            /\ UNCHANGED pc
       ELSE /\ pc' = "algo_returned"
            /\ UNCHANGED polls
    /\ UNCHANGED << error, today, dateVars, configVars, priceVars, orderVars, bookVars,
                    submitted, cycle, pending_polls >>

NextAlgo ==
    \/ AlgoRunner
    \/ AlgoBlocked
    \/ AlgoBlockedWake
    \/ AlgoGetReference
    \/ AlgoPlace
    \/ AlgoReadStatus
    \/ AlgoFillWait
    \/ OrderStatusEvent
    \/ ForeignCompletes

SpecAlgo == InitAlgo /\ [][NextAlgo]_vars

TypeOK ==
    /\ pc \in {"get_date", "retry_wait", "gate", "gate_sleep", "create_reference", "warmup",
                "qualify", "create_and_trade", "fill_wait", "set_stop_loss", "advance", "done"}
    /\ error \in {"none"} \cup ExceptionTypes
    /\ reference_price \in Readings
    /\ qi \in 0..QualificationSteps
    /\ cycle \in 0..MaxCycles
    /\ polls \in 0..(MaxPolls + 1)
    /\ foreign_open \in 0..MaxForeign

(***************************************************************************)
(* Properties of the cycle (specification Spec)                            *)
(***************************************************************************)
SubmittedIn(c, kind) == { k \in DOMAIN submitted : submitted[k].cycle = c /\ submitted[k].kind = kind }

PrimarySubmittedNow ==
    /\ Len(submitted') = Len(submitted) + 1
    /\ submitted'[Len(submitted')].kind = "primary"

\* C1: a cycle starts only in a gate iteration whose poll of the open orders came
\* back empty, and no order is open on the account at the moment a primary order
\* is submitted, whatever orders completed in between.
C1_GateMutualExclusion ==
    [][ /\ cycle' # cycle => reqOpenOrders = {}
        /\ PrimarySubmittedNow => reqOpenOrders = {} ]_vars

\* the primary order of a second cycle has been submitted
C1_Witness ==
    /\ cycle = 2
    /\ pc = "fill_wait"
    /\ SubmittedIn(2, "primary") # {}

\* C2: a cycle submits its stop-loss once, and only after a status read returned
\* 'Filled': after k reads that were not 'Filled' no stop-loss exists, and the one
\* stop-loss follows read k + 1.
C2_StopLossAfterFilled ==
    /\ Cardinality(SubmittedIn(cycle, "stoploss")) <= 1
    /\ SubmittedIn(cycle, "stoploss") # {} => option_status = "Filled" /\ polls = pending_polls + 1
    /\ pc = "fill_wait" => SubmittedIn(cycle, "stoploss") = {} /\ polls = pending_polls
    /\ pc = "advance" => Cardinality(SubmittedIn(cycle, "stoploss")) = 1

\* two reads were not 'Filled', the third was, and the stop-loss is in
C2_Witness ==
    /\ pending_polls = 2
    /\ polls = 3
    /\ SubmittedIn(cycle, "stoploss") # {}

\* C3: the strike create_reference returns is strictly greater than the reading it
\* was computed from, with and without the trial offset.
C3_StrikeFavorable ==
    pc = "create_and_trade" => ~isnan(reference_price) /\ strike_price > reference_price

\* a strike accepted without the trial offset after an unfavorable reading
C3_Witness ==
    /\ pc = "create_and_trade"
    /\ ~trial_rounding
    /\ qi > 0

C5_NoSuitablePriceAborts ==
    [][ error' = "NoSuitablePrice" =>
          /\ pc' = "done"
          /\ date_of_trade' = date_of_trade
          /\ start_date' = start_date
          /\ submitted' = submitted
          /\ cycle' = cycle
          /\ SubmittedIn(cycle, "primary") = {}
          /\ SubmittedIn(cycle, "stoploss") = {} ]_vars

\* the qualification loop ran out in a second cycle
C5_Witness ==
    /\ error = "NoSuitablePrice"
    /\ cycle = 2

\* C10: the stop-loss is a BUY of the option the cycle sold, for the same quantity,
\* with one price condition at strike + 4.75 on the reference contract's conId and
\* exchange.
C10_StopLossMirrorsPrimary ==
    long_option_order # NoOrder =>
        /\ option_trade.action = "SELL"
        /\ long_option_order.action = "BUY"
        /\ long_option_order.contract = option_trade.contract
        /\ pc = "advance" =>
              long_option_order.contract.lastTradeDateOrContractMonth = strftime(date_of_trade)
        /\ long_option_order.contract.strike = strike_price
        /\ long_option_order.totalQuantity = option_trade.totalQuantity
        /\ Len(long_option_order.conditions) = 1
        \* (price - strike) / Scale = 19 / 4 = 4.75
        /\ (long_option_order.conditions[1].price - strike_price) * 4 = 19 * Scale
        /\ long_option_order.conditions[1].conId = reference_contract.conId
        /\ long_option_order.conditions[1].exch = reference_contract.exchange

\* a stop-loss for strike 4010 (reading 3999 with the trial offset)
C10_Witness ==
    /\ pc = "advance"
    /\ long_option_order # NoOrder
    /\ strike_price = 16040

(***************************************************************************)
(* Properties of get_next_available_date (specification SpecDate)          *)
(***************************************************************************)
Eligible(d) == weekday(d) \in TRADING_DAYS_OF_WEEK /\ d \notin holidays

Attempted == last_attempt.result.kind # "none"
ReturnedDate == last_attempt.result.kind = "return"
Boundary == last_attempt.today + ORDER_PLACE_MAX_DATE

\* every calendar of the model has an eligible date within two weeks of any date
NextEligible(start) ==
    CHOOSE d \in start..(start + 2 * ScanDays) :
        Eligible(d) /\ \A e \in start..(d - 1) : ~Eligible(e)

\* C6 (as claimed): the wrapper waits and calls again only after NoSuitableDate;
\* any other exception of an attempt ends the program with that exception.
C6_OnlyNoSuitableDateRetried ==
    /\ pc = "retry_wait" => last_attempt.result.kind = "NoSuitableDate"
    /\ last_attempt.result.kind = "AssertionError" => pc = "done" /\ error = "AssertionError"

\* C7: a returned date is the earliest date at or after start whose weekday is a
\* trading day and which is no holiday.
C7_ReturnsEarliestEligible ==
    ReturnedDate =>
        LET d == last_attempt.result.value IN
        /\ d >= start_date
        /\ weekday(d) \in TRADING_DAYS_OF_WEEK
        /\ d \notin holidays
        /\ \A e \in start_date..(d - 1) : ~Eligible(e)
        /\ date_of_trade = d

\* a date returned after the scan skipped a holiday on a trading weekday
C7_Witness ==
    /\ ReturnedDate
    /\ \E e \in start_date..(last_attempt.result.value - 1) :
          e \in holidays /\ weekday(e) \in TRADING_DAYS_OF_WEEK

\* C8 (as claimed): started on a Monday with the Wednesday of that week a holiday,
\* the returned date is the Thursday.
C8_ReturnsHolidayPlusOne ==
    (ReturnedDate /\ weekday(start_date) = 0 /\ start_date + 2 \in holidays)
        => last_attempt.result.value = start_date + 3

\* C8 (amended): in that scenario the Monday itself is returned when it is no
\* holiday; a scan that starts on the Tuesday skips the holiday Wednesday, passes
\* the Thursday and returns the Friday when that is no holiday.
C8_HolidaySkippedScanContinues ==
    /\ (ReturnedDate /\ weekday(start_date) = 0 /\ start_date + 2 \in holidays
            /\ start_date \notin holidays)
          => last_attempt.result.value = start_date
    /\ (ReturnedDate /\ weekday(start_date) = 1 /\ start_date + 1 \in holidays
            /\ start_date + 3 \notin holidays)
          => last_attempt.result.value = start_date + 3

\* started on Tuesday 2021-11-23, holiday on the 24th, Friday the 26th returned
C8_Witness ==
    /\ ReturnedDate
    /\ start_date = 22
    /\ 23 \in holidays
    /\ last_attempt.result.value = 25

\* C9 (as claimed): the attempt raises NoSuitableDate exactly when start + 30 days
\* precedes the next eligible date, and returns when that date is start + 30 days.
C9_HorizonFromStart ==
    Attempted =>
        /\ last_attempt.result.kind = "NoSuitableDate"
              <=> start_date + ORDER_PLACE_MAX_DATE < NextEligible(start_date)
        /\ NextEligible(start_date) = start_date + ORDER_PLACE_MAX_DATE => ReturnedDate

\* C9 (amended): the horizon is counted from the day of the call.  The attempt
\* raises NoSuitableDate exactly when today + 30 days precedes both the next
\* eligible date and the last of the 7 candidates, and it returns the next eligible
\* date when that is today + 30 days and one of the 7 candidates.
C9_HorizonFromToday ==
    Attempted =>
        /\ last_attempt.result.kind = "NoSuitableDate"
              <=> /\ Boundary < NextEligible(start_date)
                  /\ Boundary < start_date + ScanDays - 1
        /\ (NextEligible(start_date) = Boundary /\ Boundary <= start_date + ScanDays - 1)
              => last_attempt.result = Returned(Boundary)

\* an attempt returned the boundary date today + 30 days
C9_Witness ==
    /\ ReturnedDate
    /\ last_attempt.result.value = Boundary
    /\ start_date < Boundary

(***************************************************************************)
(* Recovery and coverage of the date scan                                  *)
(***************************************************************************)
\* C11 (as claimed): NoSuitableDate never ends main(), and while the calendar
\* advances every call of the retry-wrapped get_next_available_date, also one that
\* raised NoSuitableDate, eventually returns a date.
C11_NoSuitableDateRecovered ==
    /\ [](error # "NoSuitableDate")
    /\ [](pc = "get_date" => <>(pc = "gate"))
    /\ [](last_attempt.result.kind = "NoSuitableDate" => <>(pc = "gate"))

\* C12 (as claimed): an attempt returns a date or raises NoSuitableDate within its
\* 7 candidates; the assertion after the loop is never reached.
C12_ScanAlwaysDecides ==
    Attempted => last_attempt.result.kind \in {"return", "NoSuitableDate"}

(***************************************************************************)
(* Qualification, date sequencing and the fill wait (specification Spec)   *)
(***************************************************************************)
\* a step of the qualification loop: a reading was judged, or the loop ran out
QualifyStep == pc = "qualify" /\ (pc' # pc \/ qi' # qi)

\* C13: after warm-up create_reference takes at most 12 readings, returns the
\* candidate of the first reading it exceeds, and raises NoSuitablePrice exactly
\* when 12 readings were unfavorable; without the trial offset the readings 4001,
\* 3999 give strike 4000 on the second reading.
C13_BoundedQualification ==
    [][ QualifyStep =>
          /\ qi <= 12 /\ qi' <= 12
          /\ pc' = "create_and_trade" => qi < 12
          /\ (qi < 12 /\ ~isnan(reference_price')) =>
                IF StrikeCandidate(reference_price', trial_rounding) > reference_price'
                THEN /\ pc' = "create_and_trade"
                     /\ strike_price' = StrikeCandidate(reference_price', trial_rounding)
                ELSE /\ pc' = "qualify"
                     /\ qi' = qi + 1
                     /\ error' = "none"
          /\ error' = "NoSuitablePrice" <=> qi = 12
          /\ (~trial_rounding /\ qi = 1 /\ reference_price = 16004 /\ reference_price' = 15996)
                => pc' = "create_and_trade" /\ strike_price' = 16000 ]_vars

\* strike 4000 returned on the second reading, 3999, without the trial offset
C13_Witness ==
    /\ pc = "create_and_trade"
    /\ ~trial_rounding
    /\ qi = 1
    /\ reference_price = 15996
    /\ strike_price = 16000

\* C14: the working date is first set by get_next_available_date(today); a blocked
\* gate iteration changes neither the date nor the orders; the date changes only
\* when get_next_available_date(date_of_trade + 1) returns after a completed
\* cycle, and then to a strictly later date.
C14_WorkingDateSequencing ==
    /\ (date_of_trade = NoDate /\ start_date = today)
    /\ [][ /\ date_of_trade' # date_of_trade =>
                /\ pc = "get_date" /\ pc' = "gate"
                /\ date_of_trade' = last_attempt'.result.value
                /\ date_of_trade' >= start_date
                /\ IF cycle = 0
                   THEN date_of_trade = NoDate
                   ELSE /\ start_date = date_of_trade + 1
                        /\ Len(submitted) = 2 * cycle
           /\ (pc = "get_date" /\ pc' = "gate" /\ cycle >= 1) => date_of_trade' > date_of_trade
           /\ ((pc = "gate" /\ pc' = "gate_sleep") \/ (pc = "gate_sleep" /\ pc' = "gate"))
                => UNCHANGED << date_of_trade, submitted >> ]_vars

\* two cycles done, the date moved on to 2021-12-03, the gate blocked
C14_Witness ==
    /\ pc = "gate_sleep"
    /\ cycle = 2
    /\ date_of_trade = 32

\* C15: the fill wait leaves on no status but 'Filled': while the primary order is
\* not 'Filled' the program stays in the wait and submits nothing, and a
\* cancelled primary keeps it there with no stop-loss and no further cycle.
C15_FillWaitOnlyEndsOnFilled ==
    [][ /\ (pc = "fill_wait" /\ primary_status # "Filled")
              => pc' = "fill_wait" /\ submitted' = submitted /\ cycle' = cycle
        /\ primary_status = "Cancelled"
              => /\ primary_status' = "Cancelled"
                 /\ pc = "fill_wait" /\ pc' = "fill_wait"
                 /\ SubmittedIn(cycle, "stoploss") = {}
                 /\ cycle' = cycle ]_vars

\* the cancelled primary has been polled three times and the program still waits
C15_Witness ==
    /\ pc = "fill_wait"
    /\ primary_status = "Cancelled"
    /\ option_status = "Cancelled"
    /\ polls = 3

\* C16 (as claimed): a cycle ends either with NoSuitablePrice before any order or
\* by returning to main(); main() is never ended by anything but NoSuitablePrice.
C16_CycleEndsByPriceOrReturn ==
    pc = "done" =>
        /\ error = "NoSuitablePrice"
        /\ SubmittedIn(cycle, "primary") = {}

\* C17 (as claimed): a nan reading in the qualification phase is treated as not
\* yet available: the program stays in create_reference and raises nothing.
C17_NanNeverUsed ==
    [][ (pc = "qualify" /\ isnan(reference_price'))
          => pc' \in {"qualify", "warmup"} /\ error' = "none" ]_vars

\* C20 (as claimed): when a primary order is submitted its expiration date, the
\* working date, is not before the current calendar day.
C20_NoPrimaryForPastDate ==
    [][ PrimarySubmittedNow => date_of_trade >= today ]_vars

\* a call of get_next_available_date is made and ends, by return or by raise
ScanStep == pc = "get_date" /\ pc' # "get_date"

\* C21: in every state of main() the working date is at most the current day plus
\* ORDER_PLACE_MAX_DATE, however many cycles were completed on that day; a scan
\* that starts beyond that limit raises NoSuitableDate, leaves the working date
\* alone and is retried, and after a NoSuitableDate the scan returns a date only
\* once the calendar day has moved forward.
C21_WorkingDateWithinHorizon ==
    /\ [](date_of_trade # NoDate => date_of_trade <= today + ORDER_PLACE_MAX_DATE)
    /\ [][ ScanStep =>
             /\ start_date > today + ORDER_PLACE_MAX_DATE
                  => /\ last_attempt'.result.kind = "NoSuitableDate"
                     /\ pc' = "retry_wait"
                     /\ UNCHANGED << date_of_trade, start_date, submitted, cycle >>
             /\ last_attempt'.result.kind = "NoSuitableDate"
                  => /\ pc' = "retry_wait"
                     /\ error' = "none"
                     /\ UNCHANGED << date_of_trade, start_date, submitted, cycle >>
             /\ (last_attempt.result.kind = "NoSuitableDate" /\ pc' = "gate")
                  => today > last_attempt.today
             /\ pc' = "gate" => date_of_trade' <= today + ORDER_PLACE_MAX_DATE ]_vars

\* thirteen cycles completed on the day the program started, with the shipped
\* holidays: the working date is on the horizon and the next scan is held
C21_Witness ==
    /\ pc = "retry_wait"
    /\ last_attempt.result.kind = "NoSuitableDate"
    /\ holidays = BANK_HOLIDAYS_DATES
    /\ cycle = 13
    /\ date_of_trade = today + ORDER_PLACE_MAX_DATE
    /\ start_date = date_of_trade + 1

\* the strike is a multiple of 5 lying more than 7 and at most 12.5 above the price
TrialBand(strike, price) ==
    /\ strike % (StrikeIncrement * Scale) = 0
    /\ strike - price > 7 * Scale
    /\ 2 * (strike - price) <= 25 * Scale

\* C22: with TRIAL_ROUNDING = True create_reference accepts the first reading of
\* the qualification loop whenever that reading is a resolved price: it never
\* sleeps between readings (the loop index stays 0), NoSuitablePrice is never
\* raised, and the strike returned is a multiple of 5 lying more than 7 and at
\* most 12.5 above the reading; the candidate of every price between 3990 and
\* 4010 lies in that band and is favorable.
C22_TrialOffsetAlwaysAccepts ==
    /\ [](trial_rounding => /\ error # "NoSuitablePrice"
                            /\ pc = "qualify" => qi = 0)
    /\ [][ (QualifyStep /\ trial_rounding /\ ~isnan(reference_price'))
             => /\ qi = 0
                /\ qi' = 0
                /\ pc' = "create_and_trade"
                /\ error' = "none"
                /\ strike_price' = StrikeCandidate(reference_price', TRUE)
                /\ TrialBand(strike_price', reference_price')
                /\ \A p \in ClosePrices :
                      /\ Favorable(StrikeCandidate(p, TRUE), p)
                      /\ TrialBand(StrikeCandidate(p, TRUE), p) ]_vars

\* the reading 4007.5 is accepted at once with strike 4020, 12.5 above it
C22_Witness ==
    /\ pc = "create_and_trade"
    /\ trial_rounding
    /\ qi = 0
    /\ reference_price = 16030
    /\ strike_price = 16080

(***************************************************************************)
(* The earlier variants                                                    *)
(***************************************************************************)
\* C18 (as claimed): the strike that create_reference of pre_prod_upd.py returns
\* is strictly greater than the reference price it was accepted against.
C18_UpdStrikeFavorable ==
    pc = "upd_returned" => strike_price > reference_price

\* C19 (as claimed): every pass of the wait loop of set_option_trade of
\* pre_prod_algo.py reads the order status again, so that option_status follows
\* the platform and the loop ends once the platform reports 'Filled'.
C19_AlgoLoopRepolls ==
    [][ (pc = "algo_fill_wait" /\ polls' = polls + 1) => option_status' = primary_status' ]_vars

====
